---- MODULE Spec2Model ----
(***************************************************************************)
(* A model of qualityforge's patch application engine                      *)
(* (src/src/qualityforge/tools/apply_path.py, class ApplyPatchTool).       *)
(*                                                                         *)
(* File contents are sequences of characters, a PatchSet is a sequence of  *)
(* PatchedFile records (what unidiff hands to the tool), and one call of   *)
(* apply_patches is executed step by step: parse a diff text, start a      *)
(* file operation, back the file up, write or delete it, return.           *)
(***************************************************************************)
EXTENDS Integers, Sequences, FiniteSets, TLC

VARIABLES
    fs,              \* path -> content (a sequence of characters) or Absent
    backups,         \* backups[path][second] -> content or Absent
    bdirs,           \* directories holding a .qualityforge_backups directory
    clock,           \* the wall clock, in seconds
    patches,         \* the diff texts of the call in progress (or last call)
    dry_run,         \* the dry_run flag of that call
    pc,              \* "idle" | "patch" | "file" | "backup" | "mutate"
    i,               \* 1-based index of the diff text being processed
    j,               \* 1-based index of the PatchedFile within its PatchSet
    results,         \* apply_patches' results list
    files_modified,  \* apply_patches' files_modified list
    patches_applied, \* apply_patches' counter
    patches_failed,  \* apply_patches' counter
    op,              \* the file operation in progress (handler's locals)
    ret,             \* the PatchApplicationResult of the last finished call
    calls,           \* number of calls started
    start,           \* the tree and backup area when the call started
    last,            \* the last file operation: its file before, its events, its result
    faulty,          \* whether the file system may fail (permissions, disk full)
    faulted,         \* whether an I/O operation failed during the call
    prev,            \* the previous finished call: its input, flag and outcome
    validation       \* the last call of validate_patch: its diff text and its report

vars == <<fs, backups, bdirs, clock, patches, dry_run, pc, i, j, results,
          files_modified, patches_applied, patches_failed, op, ret, calls,
          start, last, faulty, faulted, prev, validation>>

---------------------------------------------------------------------------
(* Bounds of the model. *)

\* diff texts per call
MaxBatch == 2
\* lines of the file in the hunk-application specification
MaxLen == 3
\* last second of the wall clock
MaxClock == 1

---------------------------------------------------------------------------
(* Text: characters, lines, Python's str and list operations. *)

NL == "\n"
\* no file at a path (no content is this sequence: it holds no character)
Absent == <<"<absent>">>
\* Python's None, for an error message
None == "None"

Max(a, b) == IF a >= b THEN a ELSE b
Min(a, b) == IF a <= b THEN a ELSE b

\* a line of text with its line break, as unidiff's Line.value carries it
La == <<"a", NL>>
Lb == <<"b", NL>>
Lc == <<"c", NL>>

\* ''.join(lines)
RECURSIVE Join(_)
Join(lines) ==
    IF lines = <<>> THEN <<>> ELSE Head(lines) \o Join(Tail(lines))

\* sep.join(parts) with sep = '\n'
RECURSIVE JoinNL(_)
JoinNL(parts) ==
    IF parts = <<>> THEN <<>>
    ELSE IF Len(parts) = 1 THEN Head(parts)
    ELSE Head(parts) \o <<NL>> \o JoinNL(Tail(parts))

\* value.rstrip('\n')
RECURSIVE RStripNL(_)
RStripNL(v) ==
    IF v # <<>> /\ v[Len(v)] = NL THEN RStripNL(SubSeq(v, 1, Len(v) - 1)) ELSE v

\* content.splitlines(keepends=True), for text whose only line break is '\n'
RECURSIVE SplitAcc(_, _, _)
SplitAcc(c, k, cur) ==
    IF k > Len(c) THEN (IF cur = <<>> THEN <<>> ELSE <<cur>>)
    ELSE IF c[k] = NL THEN <<Append(cur, NL)>> \o SplitAcc(c, k + 1, <<>>)
    ELSE SplitAcc(c, k + 1, Append(cur, c[k]))

SplitLines(content) == SplitAcc(content, 1, <<>>)

\* Python's slice bound: a negative index counts from the end, and both are clipped
SliceIndex(s, k) == IF k < 0 THEN Max(Len(s) + k, 0) ELSE Min(k, Len(s))
\* s[:k]
SliceTo(s, k) == SubSeq(s, 1, SliceIndex(s, k))
\* s[k:]
SliceFrom(s, k) == SubSeq(s, SliceIndex(s, k) + 1, Len(s))

\* [f(x) for x in s if keep(x)] for the three uses below
RECURSIVE SelectValues(_, _)
SelectValues(lines, tags) ==
    IF lines = <<>> THEN <<>>
    ELSE (IF Head(lines).tag \in tags THEN <<Head(lines).value>> ELSE <<>>)
         \o SelectValues(Tail(lines), tags)

RECURSIVE CountTags(_, _)
CountTags(lines, tags) ==
    IF lines = <<>> THEN 0
    ELSE (IF Head(lines).tag \in tags THEN 1 ELSE 0) + CountTags(Tail(lines), tags)

RECURSIVE SumSeq(_)
SumSeq(s) == IF s = <<>> THEN 0 ELSE Head(s) + SumSeq(Tail(s))

---------------------------------------------------------------------------
(* A parsed diff: unidiff's Line, Hunk and PatchedFile, as the tool reads them. *)

Ctx(v) == [tag |-> "ctx", value |-> v]
Add(v) == [tag |-> "add", value |-> v]
Rem(v) == [tag |-> "rem", value |-> v]

Hunk(ss, ts, ls) == [source_start |-> ss, target_start |-> ts, lines |-> ls]

PatchedFile(p, kind, hs) == [path |-> p, kind |-> kind, hunks |-> hs]

\* patched_file.is_added_file, patched_file.is_removed_file
IsAddedFile(pf) == pf.kind = "Add"
IsRemovedFile(pf) == pf.kind = "Remove"

\* patched_file.added, patched_file.removed: Added and Removed lines over all hunks
AddedCount(pf) == SumSeq([k \in 1..Len(pf.hunks) |-> CountTags(pf.hunks[k].lines, {"add"})])
RemovedCount(pf) == SumSeq([k \in 1..Len(pf.hunks) |-> CountTags(pf.hunks[k].lines, {"rem"})])

\* a diff text: whether unidiff's PatchSet(text) parses it, and the PatchedFiles it yields
DiffText(fds) == [parses |-> TRUE, files |-> fds]
Malformed == [parses |-> FALSE, files |-> <<>>]
EmptyPatchSet == DiffText(<<>>)

---------------------------------------------------------------------------
(* The tool's pure functions. *)

\* _parse_patch raises: PatchSet(text) raised, or the PatchSet is empty
ParseFails(text) == ~text.parses \/ text.files = <<>>

\* _resolve_file_path: the path under target_dir, as its components; an absolute
\* path keeps its leading "/" component and is returned as it is
StripPrefix(p) == IF Len(p) > 1 /\ p[1] \in {"a", "b"} THEN Tail(p) ELSE p
ResolveFilePath(p) == StripPrefix(p)

\* patched_file.path: unidiff's PatchedFile.path takes the header's file name
\* (--- a/P, +++ b/P) and strips a leading a/ or b/ itself
UnidiffPath(header) ==
    IF Len(header) > 1 /\ header[1] \in {"a", "b"} THEN Tail(header) ELSE header

\* file_path.parent
Parent(path) == SubSeq(path, 1, Len(path) - 1)

\* the number of lines of a hunk that are not Added: len([l for l in hunk if not l.is_added])
OldLen(hunk) == CountTags(hunk.lines, {"ctx", "rem"})
\* old_lines and new_lines of _apply_single_hunk
OldLines(hunk) == SelectValues(hunk.lines, {"ctx", "rem"})
NewLines(hunk) == SelectValues(hunk.lines, {"ctx", "add"})

\* _apply_single_hunk: the slice at target_start - 1 is replaced, unverified
ApplySingleHunk(lines, hunk) ==
    LET target_line == hunk.target_start - 1
    IN  SliceTo(lines, target_line) \o NewLines(hunk)
          \o SliceFrom(lines, target_line + OldLen(hunk))

\* _apply_hunks_to_content: the hunks in reverse order
RECURSIVE ApplyHunksToContent(_, _)
ApplyHunksToContent(lines, hunks) ==
    IF hunks = <<>> THEN lines
    ELSE ApplyHunksToContent(ApplySingleHunk(lines, hunks[Len(hunks)]),
                             SubSeq(hunks, 1, Len(hunks) - 1))

\* the Added lines of every hunk, in order
RECURSIVE AddedValues(_)
AddedValues(hunks) ==
    IF hunks = <<>> THEN <<>>
    ELSE SelectValues(Head(hunks).lines, {"add"}) \o AddedValues(Tail(hunks))

\* _handle_added_file's content: the Added values stripped of their line breaks,
\* joined with '\n', and a final '\n' when the content is not empty and has none
AddedContent(pf) ==
    LET vals == AddedValues(pf.hunks)
        content == JoinNL([k \in 1..Len(vals) |-> RStripNL(vals[k])])
    IN  IF content # <<>> /\ content[Len(content)] # NL
        THEN Append(content, NL) ELSE content

\* _create_backup's backup_path: .qualityforge_backups/<name>.<timestamp>.backup
\* beside the file
BackupPath(path, now) == [file |-> path, ts |-> now]

\* backup_path = None
NoBackup == [file |-> <<>>, ts |-> -1]

\* PatchResult
PatchResult(ok, path, added, removed, hunks, backup, err) ==
    [success |-> ok, file_path |-> path, lines_added |-> added,
     lines_removed |-> removed, hunks_applied |-> hunks, hunks_failed |-> 0,
     backup_path |-> backup, error |-> err]

\* a bug: a failed result carries the backup path of its file
FailedWithBackup(path, err) == PatchResult(FALSE, path, 0, 0, 0, BackupPath(path, 0), err)

\* a failed result: the counts and backup_path keep their defaults
Failed(path, err) == PatchResult(FALSE, path, 0, 0, 0, NoBackup, err)

\* the successful result of each handler
Succeeded(pf, path, backup) ==
    PatchResult(TRUE, path,
                IF IsRemovedFile(pf) THEN 0 ELSE AddedCount(pf),
                IF IsAddedFile(pf) THEN 0 ELSE RemovedCount(pf),
                Len(pf.hunks), backup, None)

\* a bug: the synthetic identifier counts from zero
ZeroBasedPath(k) == <<"patch_" \o ToString(k - 1)>>

\* apply_patches' synthetic result of a diff text that does not parse
SyntheticPath(k) == <<"patch_" \o ToString(k)>>
ParseFailure(k) == Failed(SyntheticPath(k), "Failed to parse patch")

\* a bug: every successful result's path is appended, seen before or not
AppendAlways(fm, path) == Append(fm, path)

\* apply_patches: files_modified takes a successful result's path once
AppendModified(fm, path) ==
    IF \E k \in 1..Len(fm) : fm[k] = path THEN fm ELSE Append(fm, path)

\* a bug: a result is put in front of the list
RecordFirst(rs, r) == <<r>> \o rs

\* apply_patches: results.append(result)
Record(rs, r) == Append(rs, r)

\* a bug: failures are not counted
FailuresUncounted(n, ok) == n

\* apply_patches: patches_failed after a result
CountFailed(n, ok) == IF ok THEN n ELSE n + 1

\* a bug: the loop over a PatchSet stops after its first PatchedFile
OneFilePerPatch(k, n, ok) == FALSE

\* a bug: a failed PatchedFile ends the loop over its PatchSet
FailureEndsPatchSet(k, n, ok) == ok /\ k < n

\* apply_patches: the loop over a PatchSet of n PatchedFiles goes on after the
\* k-th, whether its result was a success or not
MoreFiles(k, n, ok) == k < n

\* a bug: a diff text that fails to parse takes the next one with it
SkipNext(k, n) == k + 2

\* a bug: a diff text that fails to parse ends the loop
AbortBatch(k, n) == n + 1

\* apply_patches: after a diff text failed to parse, the loop goes on with the next
AfterParseFailure(k, n) == k + 1

\* a bug: a Remove or Modify goes on although its target is missing
MissingTargetIgnored(exists) == FALSE

\* _handle_removed_file and _handle_modified_file: the target must exist
MissingTargetRefused(exists) == ~exists

\* a bug: the existence check is missing and the file is overwritten
NeverRefused(exists) == FALSE

\* _handle_added_file: the target must not exist
AddedTargetRefused(exists) == exists

\* a bug: the dry_run flag is not looked at
BackupInDryRun(dry) == "backup"

\* a bug: the file is written or deleted without a backup
SkipBackup(dry) == IF dry THEN "return" ELSE "mutate"

\* _handle_modified_file and _handle_removed_file: a dry run returns before the backup
AfterValidation(dry) == IF dry THEN "return" ELSE "backup"

\* a bug: the exception of _create_backup is swallowed and the handler goes on
MutateAnyway(copied) == "mutate"

\* _handle_modified_file and _handle_removed_file: an exception of _create_backup
\* reaches the except clause, past the write and the unlink
AfterBackup(copied) == IF copied THEN "mutate" ELSE "fail"

\* apply_patches' return value
PatchApplicationResult ==
    [success |-> patches_failed = 0,
     patches_applied |-> patches_applied,
     patches_failed |-> patches_failed,
     files_modified |-> files_modified,
     results |-> results,
     error |-> None]

---------------------------------------------------------------------------
(* The inputs: a target directory of two files, and the diff texts. *)

F == <<"f">>
G == <<"g">>
DiffPaths == {F, G}
FsPaths == {ResolveFilePath(p) : p \in DiffPaths}
Seconds == 0..MaxClock

\* --- /dev/null, +++ b/p, @@ -0,0 +1 @@ +b
AddDiff(p) == PatchedFile(p, "Add", <<Hunk(0, 1, <<Add(Lb)>>)>>)
\* --- a/p, +++ /dev/null, @@ -1 +0,0 @@ -a
RemoveDiff(p) == PatchedFile(p, "Remove", <<Hunk(1, 0, <<Rem(La)>>)>>)
\* --- a/p, +++ b/p, @@ -1 +1 @@ -a +b
ModifyDiff(p) == PatchedFile(p, "Modify", <<Hunk(1, 1, <<Rem(La), Add(Lb)>>)>>)

FileDiffs(p) == {AddDiff(p), RemoveDiff(p), ModifyDiff(p)}

DiffTexts ==
    {Malformed, EmptyPatchSet}
    \cup {DiffText(<<fd>>) : fd \in FileDiffs(F) \cup FileDiffs(G)}
    \cup {DiffText(<<fd1, fd2>>) : fd1 \in FileDiffs(F), fd2 \in {AddDiff(G)}}

\* the calls: no diff text at all, or up to MaxBatch of them
Batches == {<<>>} \cup UNION {[1..n -> DiffTexts] : n \in 1..MaxBatch}

InitialContents == {Absent, Join(<<La>>)}

\* placeholders: no file operation, no result, no call yet
NoFile == PatchedFile(<<>>, "none", <<>>)
NoResult == Failed(<<>>, "no result")
NoReturn == [success |-> FALSE, patches_applied |-> 0, patches_failed |-> 0,
             files_modified |-> <<>>, results |-> <<>>, error |-> "no call"]
NoOp == [kind |-> "none", path |-> <<>>, pf |-> NoFile, content |-> <<>>,
         backup_path |-> NoBackup]
NoLast == [kind |-> "none", path |-> <<>>, pf |-> NoFile, pre |-> Absent,
           events |-> <<>>, done |-> FALSE, result |-> NoResult]
NoCall == [patches |-> <<>>, dry_run |-> FALSE, ret |-> NoReturn,
           fs |-> [p \in FsPaths |-> Absent], faulted |-> FALSE]
NoValidation == [called |-> FALSE, text |-> Malformed,
                 report |-> [valid |-> FALSE, files |-> <<>>, warnings |-> <<>>,
                             errors |-> <<>>]]

\* the state before the first call, but for the file system's reliability
Start ==
    /\ fs \in [FsPaths -> InitialContents]
    /\ backups = [p \in FsPaths |-> [t \in Seconds |-> Absent]]
    /\ bdirs = {}
    /\ clock = 0
    /\ patches = <<>>
    /\ dry_run = FALSE
    /\ pc = "idle"
    /\ i = 1
    /\ j = 1
    /\ results = <<>>
    /\ files_modified = <<>>
    /\ patches_applied = 0
    /\ patches_failed = 0
    /\ op = NoOp
    /\ ret = NoReturn
    /\ calls = 0
    /\ start = [fs |-> fs, backups |-> backups, bdirs |-> bdirs]
    /\ last = NoLast
    /\ faulted = FALSE
    /\ prev = NoCall
    /\ validation = NoValidation

\* one call, on a file system that may fail
Init == Start /\ faulty = TRUE

\* two calls with the same diff texts, on a file system that does not fail
InitTwice == Start /\ faulty = FALSE

---------------------------------------------------------------------------
(* apply_patches, step by step. *)

\* the locals of apply_patches at its first line
Enter(ps, dry) ==
    /\ patches' = ps
    /\ dry_run' = dry
    /\ pc' = "patch"
    /\ i' = 1
    /\ j' = 1
    /\ results' = <<>>
    /\ files_modified' = <<>>
    /\ patches_applied' = 0
    /\ patches_failed' = 0
    /\ op' = NoOp
    /\ start' = [fs |-> fs, backups |-> backups, bdirs |-> bdirs]
    /\ last' = NoLast
    /\ faulted' = FALSE
    /\ calls' = calls + 1
    /\ UNCHANGED <<fs, backups, bdirs, clock, ret, faulty>>

\* the caller calls apply_patches(patches, target_dir, dry_run)
Call ==
    /\ UNCHANGED validation
    /\ pc = "idle"
    /\ calls = 0
    /\ \E ps \in Batches, dry \in BOOLEAN : Enter(ps, dry)
    /\ UNCHANGED prev

\* the caller calls again with the same diff texts, dry or not
CallAgain ==
    /\ UNCHANGED validation
    /\ pc = "idle"
    /\ calls = 1
    /\ prev' = [patches |-> patches, dry_run |-> dry_run, ret |-> ret,
                fs |-> start.fs, faulted |-> faulted]
    /\ \E dry \in BOOLEAN : Enter(patches, dry)

\* a second passes after a call returned
Tick ==
    /\ UNCHANGED validation
    /\ pc = "idle"
    /\ calls > 0
    /\ clock < MaxClock
    /\ clock' = clock + 1
    /\ UNCHANGED <<fs, backups, bdirs, patches, dry_run, pc, i, j, results,
                   files_modified, patches_applied, patches_failed, op, ret,
                   calls, start, faulty, last, faulted, prev>>

\* the for loop is over: apply_patches returns
Return ==
    /\ UNCHANGED validation
    /\ pc = "patch"
    /\ i > Len(patches)
    /\ ret' = PatchApplicationResult
    /\ pc' = "idle"
    /\ UNCHANGED <<fs, backups, bdirs, clock, patches, dry_run, i, j, results,
                   files_modified, patches_applied, patches_failed, op, calls,
                   start, last, faulty, faulted, prev>>

\* _parse_patch raises: the except clause of the loop body records patch_<i>
ParseFail ==
    /\ UNCHANGED validation
    /\ pc = "patch"
    /\ i <= Len(patches)
    /\ ParseFails(patches[i])
    /\ results' = Record(results, ParseFailure(i))
    /\ patches_failed' = CountFailed(patches_failed, FALSE)
    /\ i' = AfterParseFailure(i, Len(patches))
    /\ UNCHANGED <<fs, backups, bdirs, clock, patches, dry_run, pc, j,
                   files_modified, patches_applied, op, ret, calls, start, faulty,
                   last, faulted, prev>>

\* _parse_patch returns the PatchSet: the inner loop starts
ParseOk ==
    /\ UNCHANGED validation
    /\ pc = "patch"
    /\ i <= Len(patches)
    /\ ~ParseFails(patches[i])
    /\ pc' = "file"
    /\ j' = 1
    /\ UNCHANGED <<fs, backups, bdirs, clock, patches, dry_run, i, results,
                   files_modified, patches_applied, patches_failed, op, ret,
                   calls, start, faulty, last, faulted, prev>>

\* the PatchedFile at hand and its resolved path
CurFile == patches[i].files[j]
CurPath == ResolveFilePath(CurFile.path)

\* a handler returns `result`: the loop body records it and moves on
Finish(base, result, events) ==
    /\ results' = Record(results, result)
    /\ patches_applied' = IF result.success THEN patches_applied + 1 ELSE patches_applied
    /\ patches_failed' = CountFailed(patches_failed, result.success)
    /\ files_modified' = IF result.success
                         THEN AppendModified(files_modified, result.file_path)
                         ELSE files_modified
    /\ IF MoreFiles(j, Len(patches[i].files), result.success)
       THEN /\ j' = j + 1
            /\ pc' = "file"
            /\ i' = i
       ELSE /\ j' = 1
            /\ pc' = "patch"
            /\ i' = i + 1
    /\ op' = NoOp
    /\ last' = [base EXCEPT !.events = events, !.done = TRUE, !.result = result]
    /\ UNCHANGED <<clock, patches, dry_run, ret, calls, start, faulty, prev>>

\* a file operation starts on the file at hand
Begin(kind) ==
    [kind |-> kind, path |-> CurPath, pf |-> CurFile, pre |-> fs[CurPath],
     events |-> <<>>, done |-> FALSE, result |-> NoResult]

\* what a write that raises leaves in the file: open() has truncated it, and
\* any part of the text short of all of it may have reached the disk
Prefixes(c) == {SubSeq(c, 1, k) : k \in 0..Len(c)}
ProperPrefixes(c) == {SubSeq(c, 1, k) : k \in 0..Max(Len(c) - 1, 0)}

\* _handle_added_file
HandleAdded ==
    /\ UNCHANGED validation
    /\ pc = "file"
    /\ IsAddedFile(CurFile)
    /\ LET path == CurPath
           pf == CurFile
           base == Begin("Add")
       IN  IF AddedTargetRefused(fs[path] # Absent)
           THEN /\ Finish(base, Failed(path, "Cannot add file that already exists"), <<>>)
                /\ UNCHANGED <<fs, backups, bdirs, faulted>>
           ELSE IF dry_run
           THEN /\ Finish(base, Succeeded(pf, path, NoBackup), <<>>)
                /\ UNCHANGED <<fs, backups, bdirs, faulted>>
           ELSE \/ \* mkdir and write_text succeed
                   /\ fs' = [fs EXCEPT ![path] = AddedContent(pf)]
                   /\ Finish(base, Succeeded(pf, path, NoBackup), <<"create">>)
                   /\ UNCHANGED <<backups, bdirs, faulted>>
                \/ \* mkdir raises, or write_text cannot open the file
                   /\ Finish(base, Failed(path, "Failed to create new file"), <<>>)
                   /\ faulty /\ faulted' = TRUE
                   /\ UNCHANGED <<fs, backups, bdirs>>
                \/ \* write_text raises after it created the file
                   /\ \E part \in ProperPrefixes(AddedContent(pf)) :
                         fs' = [fs EXCEPT ![path] = part]
                   /\ Finish(base, Failed(path, "Failed to create new file"), <<"create">>)
                   /\ faulty /\ faulted' = TRUE
                   /\ UNCHANGED <<backups, bdirs>>

\* _handle_removed_file, up to the backup
HandleRemoved ==
    /\ UNCHANGED validation
    /\ pc = "file"
    /\ ~IsAddedFile(CurFile)
    /\ IsRemovedFile(CurFile)
    /\ LET path == CurPath
           pf == CurFile
           base == Begin("Remove")
       IN  IF MissingTargetRefused(fs[path] # Absent)
           THEN /\ Finish(base, Failed(path, "Cannot remove file that doesn't exist"), <<>>)
                /\ UNCHANGED <<fs, backups, bdirs, faulted>>
           ELSE IF AfterValidation(dry_run) = "return"
           THEN /\ Finish(base, Succeeded(pf, path, NoBackup), <<>>)
                /\ UNCHANGED <<fs, backups, bdirs, faulted>>
           ELSE /\ pc' = AfterValidation(dry_run)
                /\ op' = [kind |-> "Remove", path |-> path, pf |-> pf,
                          content |-> <<>>, backup_path |-> NoBackup]
                /\ last' = base
                /\ UNCHANGED <<fs, backups, bdirs, clock, patches, dry_run, i, j,
                               results, files_modified, patches_applied,
                               patches_failed, ret, calls, start, faulty, faulted, prev>>

\* _handle_modified_file, up to the backup
HandleModified ==
    /\ UNCHANGED validation
    /\ pc = "file"
    /\ ~IsAddedFile(CurFile)
    /\ ~IsRemovedFile(CurFile)
    /\ LET path == CurPath
           pf == CurFile
           base == Begin("Modify")
       IN  IF MissingTargetRefused(fs[path] # Absent)
           THEN /\ Finish(base, Failed(path, "Cannot modify file that doesn't exist"), <<>>)
                /\ UNCHANGED <<fs, backups, bdirs, faulted>>
           ELSE \/ \* read_text raises
                   /\ Finish(base, Failed(path, "Failed to apply patch"), <<>>)
                   /\ faulty /\ faulted' = TRUE
                   /\ UNCHANGED <<fs, backups, bdirs>>
                \/ \* the file is read and the hunks are applied in memory
                   LET original_lines == SplitLines(fs[path])
                       modified_lines == ApplyHunksToContent(original_lines, pf.hunks)
                   IN  IF AfterValidation(dry_run) = "return"
                       THEN /\ Finish(base, Succeeded(pf, path, NoBackup), <<>>)
                            /\ UNCHANGED <<fs, backups, bdirs, faulted>>
                       ELSE /\ pc' = AfterValidation(dry_run)
                            /\ op' = [kind |-> "Modify", path |-> path, pf |-> pf,
                                      content |-> Join(modified_lines),
                                      backup_path |-> NoBackup]
                            /\ last' = base
                            /\ UNCHANGED <<fs, backups, bdirs, clock, patches, dry_run,
                                           i, j, results, files_modified,
                                           patches_applied, patches_failed, ret,
                                           calls, start, faulty, faulted, prev>>

\* the message of the handler's except clause
ExceptMessage(kind) ==
    IF kind = "Remove" THEN "Failed to remove file" ELSE "Failed to apply patch"

\* _create_backup, called by _handle_modified_file and _handle_removed_file
CreateBackup ==
    /\ UNCHANGED validation
    /\ pc = "backup"
    /\ LET path == op.path
           dir == Parent(path)
           backup_path == BackupPath(path, clock)
       IN  \/ \* mkdir and copy2 succeed
              /\ bdirs' = bdirs \cup {dir}
              /\ backups' = [backups EXCEPT ![path][clock] = fs[path]]
              /\ IF AfterBackup(TRUE) = "mutate"
                 THEN /\ pc' = "mutate"
                      /\ op' = [op EXCEPT !.backup_path = backup_path]
                      /\ last' = [last EXCEPT !.events = Append(@, "backup")]
                      /\ UNCHANGED <<fs, clock, patches, dry_run, i, j, results,
                                     files_modified, patches_applied, patches_failed,
                                     ret, calls, start, faulty, faulted, prev>>
                 ELSE /\ Finish(last, Failed(path, ExceptMessage(op.kind)),
                                Append(last.events, "backup"))
                      /\ UNCHANGED <<fs, faulted>>
           \/ \* mkdir raises: the backup directory cannot be created
              /\ dir \notin bdirs
              /\ faulty /\ faulted' = TRUE
              /\ IF AfterBackup(FALSE) = "mutate"
                 THEN /\ pc' = "mutate"
                      /\ last' = [last EXCEPT !.events = Append(@, "backup failed")]
                      /\ UNCHANGED <<fs, backups, bdirs, clock, patches, dry_run, i, j,
                                     results, files_modified, patches_applied,
                                     patches_failed, op, ret, calls, start, faulty, prev>>
                 ELSE /\ Finish(last, Failed(path, ExceptMessage(op.kind)),
                                Append(last.events, "backup failed"))
                      /\ UNCHANGED <<fs, backups, bdirs>>
           \/ \* copy2 raises: the copy may be missing, partial or whole
              /\ bdirs' = bdirs \cup {dir}
              /\ \E part \in Prefixes(fs[path]) \cup {backups[path][clock]} :
                    backups' = [backups EXCEPT ![path][clock] = part]
              /\ faulty /\ faulted' = TRUE
              /\ IF AfterBackup(FALSE) = "mutate"
                 THEN /\ pc' = "mutate"
                      /\ last' = [last EXCEPT !.events = Append(@, "backup failed")]
                      /\ UNCHANGED <<fs, clock, patches, dry_run, i, j, results,
                                     files_modified, patches_applied, patches_failed,
                                     op, ret, calls, start, faulty, prev>>
                 ELSE /\ Finish(last, Failed(path, ExceptMessage(op.kind)),
                                Append(last.events, "backup failed"))
                      /\ UNCHANGED fs

\* the write of _handle_modified_file, the unlink of _handle_removed_file
Mutate ==
    /\ UNCHANGED validation
    /\ pc = "mutate"
    /\ LET path == op.path
       IN  \/ \* write_text succeeds
              /\ op.kind = "Modify"
              /\ fs' = [fs EXCEPT ![path] = op.content]
              /\ Finish(last, Succeeded(op.pf, path, op.backup_path),
                        Append(last.events, "write"))
              /\ UNCHANGED <<backups, bdirs, faulted>>
           \/ \* write_text cannot open the file
              /\ op.kind = "Modify"
              /\ Finish(last, Failed(path, ExceptMessage(op.kind)), last.events)
              /\ faulty /\ faulted' = TRUE
              /\ UNCHANGED <<fs, backups, bdirs>>
           \/ \* write_text raises after open() truncated the file
              /\ op.kind = "Modify"
              /\ \E part \in ProperPrefixes(op.content) :
                    fs' = [fs EXCEPT ![path] = part]
              /\ Finish(last, Failed(path, ExceptMessage(op.kind)),
                        Append(last.events, "write"))
              /\ faulty /\ faulted' = TRUE
              /\ UNCHANGED <<backups, bdirs>>
           \/ \* unlink succeeds
              /\ op.kind = "Remove"
              /\ fs' = [fs EXCEPT ![path] = Absent]
              /\ Finish(last, Succeeded(op.pf, path, op.backup_path),
                        Append(last.events, "unlink"))
              /\ UNCHANGED <<backups, bdirs, faulted>>
           \/ \* unlink raises
              /\ op.kind = "Remove"
              /\ Finish(last, Failed(path, ExceptMessage(op.kind)), last.events)
              /\ faulty /\ faulted' = TRUE
              /\ UNCHANGED <<fs, backups, bdirs>>

Next ==
    \/ Call
    \/ Tick
    \/ ParseFail
    \/ ParseOk
    \/ HandleAdded
    \/ HandleRemoved
    \/ HandleModified
    \/ CreateBackup
    \/ Mutate
    \/ Return

Spec == Init /\ [][Next]_vars

NextTwice == Next \/ CallAgain

SpecTwice == InitTwice /\ [][NextTwice]_vars

---------------------------------------------------------------------------
(* A call as a function of the tree, when no I/O operation fails. *)

\* _apply_single_file_patch: the tree it leaves and the result it returns
ApplySingleFilePatch(tree, pf, dry, now) ==
    LET path == ResolveFilePath(pf.path)
        exists == tree[path] # Absent
    IN  IF IsAddedFile(pf)
        THEN IF AddedTargetRefused(exists)
             THEN [fs |-> tree,
                   result |-> Failed(path, "Cannot add file that already exists")]
             ELSE IF dry
             THEN [fs |-> tree, result |-> Succeeded(pf, path, NoBackup)]
             ELSE [fs |-> [tree EXCEPT ![path] = AddedContent(pf)],
                   result |-> Succeeded(pf, path, NoBackup)]
        ELSE IF IsRemovedFile(pf)
        THEN IF MissingTargetRefused(exists)
             THEN [fs |-> tree,
                   result |-> Failed(path, "Cannot remove file that doesn't exist")]
             ELSE IF dry
             THEN [fs |-> tree, result |-> Succeeded(pf, path, NoBackup)]
             ELSE [fs |-> [tree EXCEPT ![path] = Absent],
                   result |-> Succeeded(pf, path, BackupPath(path, now))]
        ELSE IF MissingTargetRefused(exists)
             THEN [fs |-> tree,
                   result |-> Failed(path, "Cannot modify file that doesn't exist")]
             ELSE IF dry
             THEN [fs |-> tree, result |-> Succeeded(pf, path, NoBackup)]
             ELSE [fs |-> [tree EXCEPT ![path] =
                             Join(ApplyHunksToContent(SplitLines(tree[path]), pf.hunks))],
                   result |-> Succeeded(pf, path, BackupPath(path, now))]

\* the inner loop of apply_patches over the PatchedFiles of a PatchSet
RECURSIVE ApplyPatchSet(_, _, _, _)
ApplyPatchSet(tree, files, dry, now) ==
    IF files = <<>> THEN [fs |-> tree, results |-> <<>>]
    ELSE LET one == ApplySingleFilePatch(tree, Head(files), dry, now)
             rest == ApplyPatchSet(one.fs, Tail(files), dry, now)
         IN  [fs |-> rest.fs, results |-> <<one.result>> \o rest.results]

\* the outer loop of apply_patches from the k-th diff text on
RECURSIVE ApplyPatches(_, _, _, _, _)
ApplyPatches(tree, texts, k, dry, now) ==
    IF k > Len(texts) THEN [fs |-> tree, results |-> <<>>]
    ELSE LET one == IF ParseFails(texts[k])
                    THEN [fs |-> tree, results |-> <<ParseFailure(k)>>]
                    ELSE ApplyPatchSet(tree, texts[k].files, dry, now)
             rest == ApplyPatches(one.fs, texts, k + 1, dry, now)
         IN  [fs |-> rest.fs, results |-> one.results \o rest.results]

---------------------------------------------------------------------------
(* validate_patch, and a dry run of the diff text it validated. *)

\* a bug: an Add can be applied when its target exists, as the others
CanApplyIfExists(operation, exists) == exists

\* validate_patch: file_info["can_apply"]
CanApply(operation, exists) == IF operation = "add" THEN ~exists ELSE exists

\* validate_patch: file_info["operation"]
Operation(pf) ==
    IF IsAddedFile(pf) THEN "add" ELSE IF IsRemovedFile(pf) THEN "remove" ELSE "modify"

\* validate_patch: the file_info of a PatchedFile
FileInfo(tree, pf) ==
    LET path == ResolveFilePath(pf.path)
        exists == tree[path] # Absent
    IN  [path |-> path, operation |-> Operation(pf), exists |-> exists,
         can_apply |-> CanApply(Operation(pf), exists)]

\* validate_patch: the error of a file_info, if any
ValidationError(info) ==
    IF info.operation = "add" /\ info.exists
    THEN <<[error |-> "Cannot add existing file", path |-> info.path]>>
    ELSE IF info.operation = "remove" /\ ~info.exists
    THEN <<[error |-> "Cannot remove non-existent file", path |-> info.path]>>
    ELSE IF info.operation = "modify" /\ ~info.exists
    THEN <<[error |-> "Cannot modify non-existent file", path |-> info.path]>>
    ELSE <<>>

RECURSIVE ValidationErrors(_)
ValidationErrors(infos) ==
    IF infos = <<>> THEN <<>>
    ELSE ValidationError(Head(infos)) \o ValidationErrors(Tail(infos))

\* validate_patch's return value
ValidatePatch(tree, text) ==
    IF ParseFails(text)
    THEN [valid |-> FALSE, files |-> <<>>, warnings |-> <<>>,
          errors |-> <<[error |-> "Patch validation failed", path |-> <<>>]>>]
    ELSE LET infos == [k \in 1..Len(text.files) |-> FileInfo(tree, text.files[k])]
         IN  [valid |-> ValidationErrors(infos) = <<>>, files |-> infos,
              warnings |-> <<>>, errors |-> ValidationErrors(infos)]

\* a bug: validation is done by applying the diff text
ValidatedByApplying(tree, text) == ApplyPatches(tree, <<text>>, 1, FALSE, 0).fs

\* the tree validate_patch leaves: it calls _parse_patch, _resolve_file_path and
\* Path.exists, and nothing that writes
ValidatedTree(tree, text) == tree

\* the caller calls validate_patch(patch_content, target_dir)
Validate ==
    /\ pc = "idle"
    /\ calls = 0
    /\ ~validation.called
    /\ \E text \in DiffTexts :
          /\ validation' = [called |-> TRUE, text |-> text,
                            report |-> ValidatePatch(fs, text)]
          /\ fs' = ValidatedTree(fs, text)
    /\ UNCHANGED <<backups, bdirs, clock, patches, dry_run, pc, i, j, results,
                   files_modified, patches_applied, patches_failed, op, ret, calls,
                   start, last, faulty, faulted, prev>>

\* the caller then calls apply_patches([patch_content], target_dir, dry_run=True)
DryRunValidated ==
    /\ pc = "idle"
    /\ calls = 0
    /\ validation.called
    /\ Enter(<<validation.text>>, TRUE)
    /\ UNCHANGED <<prev, validation>>

\* a tree whose files may be unreadable
InitValidate == Start /\ faulty = TRUE

NextValidate ==
    \/ Validate
    \/ DryRunValidated
    \/ ParseFail
    \/ ParseOk
    \/ HandleAdded
    \/ HandleRemoved
    \/ HandleModified
    \/ Return

SpecValidate == InitValidate /\ [][NextValidate]_vars

---------------------------------------------------------------------------
(* Modify alone: a file of up to MaxLen lines and a well-formed diff of it. *)

\* the files: every sequence of 1..MaxLen lines "a" and "b"
Originals == UNION {[1..n -> {La, Lb}] : n \in 1..MaxLen}

\* one change of a diff computed on file A, at line s: a line replaced, a line
\* deleted after a context line, a line inserted after a context line
ChangeLines(A, s, form) ==
    CASE form = "replace" -> <<Rem(A[s]), Add(Lc)>>
      [] form = "delete"  -> <<Ctx(A[s]), Rem(A[s + 1])>>
      [] form = "insert"  -> <<Ctx(A[s]), Add(Lc)>>

Changes(A) ==
    {c \in [at : 1..Len(A), form : {"replace", "delete", "insert"}] :
        c.form = "delete" => c.at + 1 <= Len(A)}

ChangeOldLen(c) == IF c.form = "delete" THEN 2 ELSE 1
ChangeNewLen(c) == IF c.form = "insert" THEN 2 ELSE 1

\* the diffs of A: one hunk, or two hunks in ascending order that do not overlap;
\* target_start is source_start shifted by what the hunks before it add or remove
WellFormedHunks(A) ==
    {<<Hunk(c.at, c.at, ChangeLines(A, c.at, c.form))>> : c \in Changes(A)}
    \cup
    UNION {{<<Hunk(c.at, c.at, ChangeLines(A, c.at, c.form)),
              Hunk(d.at, d.at + ChangeNewLen(c) - ChangeOldLen(c),
                   ChangeLines(A, d.at, d.form))>> :
               d \in {x \in Changes(A) : x.at >= c.at + ChangeOldLen(c)}} :
           c \in Changes(A)}

\* the call apply_patches([diff], target_dir, dry_run) has been entered
InitModify ==
    /\ \E A \in Originals :
         /\ fs = [p \in FsPaths |-> IF p = F THEN Join(A) ELSE Absent]
         /\ \E hs \in WellFormedHunks(A) :
               patches = <<DiffText(<<PatchedFile(F, "Modify", hs)>>)>>
    /\ backups = [p \in FsPaths |-> [t \in Seconds |-> Absent]]
    /\ bdirs = {}
    /\ clock = 0
    /\ dry_run \in BOOLEAN
    /\ pc = "patch"
    /\ i = 1
    /\ j = 1
    /\ results = <<>>
    /\ files_modified = <<>>
    /\ patches_applied = 0
    /\ patches_failed = 0
    /\ op = NoOp
    /\ ret = NoReturn
    /\ calls = 1
    /\ start = [fs |-> fs, backups |-> backups, bdirs |-> bdirs]
    /\ last = NoLast
    /\ faulty = FALSE
    /\ faulted = FALSE
    /\ prev = NoCall
    /\ validation = NoValidation

NextModify ==
    \/ ParseOk
    \/ HandleModified
    \/ CreateBackup
    \/ Mutate
    \/ Return

SpecModify == InitModify /\ [][NextModify]_vars

---------------------------------------------------------------------------
(* One file diff alone: paths in and out of target_dir, files that are not   *)
(* the files the diff was made from, added lines that are empty.             *)

\* the files: target_dir/f, target_dir/a/f, target_dir/../f and /f
InDir == <<"a", "f">>
Outside == <<"..", "f">>
Rooted == <<"/", "f">>
OnePaths == {F, InDir, Outside, Rooted}

\* the file names of the diff headers: a/P and b/P for a relative P, as git
\* writes them, and an absolute name as diff -u writes it
Prefixed(P) == <<"a">> \o P
HeaderPaths == {Prefixed(P) : P \in {F, InDir, Outside}} \cup {Rooted}

\* an empty line, as a Line.value
Empty == <<NL>>

\* --- /dev/null, +++ b/p, @@ -0,0 +1,n @@ and n Added lines
AddLines(p, vals) ==
    PatchedFile(p, "Add", <<Hunk(0, 1, [k \in 1..Len(vals) |-> Add(vals[k])])>>)

\* --- a/p, +++ b/p, @@ -1 +1 @@ -a +c, @@ -2 +2 @@ -b +c
TwoHunkDiff(p) ==
    PatchedFile(p, "Modify", <<Hunk(1, 1, <<Rem(La), Add(Lc)>>),
                               Hunk(2, 2, <<Rem(Lb), Add(Lc)>>)>>)

OneFileDiffs(p) ==
    {AddLines(p, vals) : vals \in {<<La>>, <<La, Empty>>, <<Empty>>}}
    \cup {RemoveDiff(p), ModifyDiff(p), TwoHunkDiff(p)}

OneContents == {Absent, Join(<<La, Lb>>), Join(<<Lb, Lb>>)}

\* the call apply_patches([diff], target_dir, dry_run) has been entered
InitOne ==
    /\ fs \in [OnePaths -> OneContents]
    /\ \E h \in HeaderPaths :
          \E fd \in OneFileDiffs(UnidiffPath(h)) : patches = <<DiffText(<<fd>>)>>
    /\ backups = [p \in OnePaths |-> [t \in Seconds |-> Absent]]
    /\ bdirs = {}
    /\ clock = 0
    /\ dry_run \in BOOLEAN
    /\ pc = "patch"
    /\ i = 1
    /\ j = 1
    /\ results = <<>>
    /\ files_modified = <<>>
    /\ patches_applied = 0
    /\ patches_failed = 0
    /\ op = NoOp
    /\ ret = NoReturn
    /\ calls = 1
    /\ start = [fs |-> fs, backups |-> backups, bdirs |-> bdirs]
    /\ last = NoLast
    /\ faulty = FALSE
    /\ faulted = FALSE
    /\ prev = NoCall
    /\ validation = NoValidation

NextOne ==
    \/ ParseOk
    \/ HandleAdded
    \/ HandleRemoved
    \/ HandleModified
    \/ CreateBackup
    \/ Mutate
    \/ Return

SpecOne == InitOne /\ [][NextOne]_vars

---------------------------------------------------------------------------
(* What the claims speak of. *)

\* a call has returned
Returned == pc = "idle" /\ calls > 0

\* lines[t : t + n]
SliceAt(lines, t, n) == SubSeq(lines, SliceIndex(lines, t) + 1, SliceIndex(lines, t + n))

\* the lines at the hunk's target position are not the hunk's Context+Removed lines
HunkMismatch(lines, hunk) ==
    SliceAt(lines, hunk.target_start - 1, OldLen(hunk)) # OldLines(hunk)

Mismatches(content, pf) ==
    \E k \in 1..Len(pf.hunks) : HunkMismatch(SplitLines(content), pf.hunks[k])

\* what a unified diff means: each hunk replaces its source range of the original
RECURSIVE Patched(_, _)
Patched(lines, hunks) ==
    IF hunks = <<>> THEN lines
    ELSE LET h == hunks[Len(hunks)]
         IN  Patched(SubSeq(lines, 1, h.source_start - 1) \o NewLines(h)
                       \o SubSeq(lines, h.source_start + OldLen(h), Len(lines)),
                     SubSeq(hunks, 1, Len(hunks) - 1))

\* the four fields a dry run predicts
Counts(r) == <<r.success, r.lines_added, r.lines_removed, r.hunks_applied>>

---------------------------------------------------------------------------
(* C1: a Modify whose file differs from a hunk's Context+Removed lines at the *)
(* hunk's target position fails, and leaves the file as it was.               *)
MismatchDetection ==
    (last.done /\ last.kind = "Modify" /\ last.pre # Absent
       /\ Mismatches(last.pre, last.pf))
    => (~last.result.success /\ fs[last.path] = last.pre)

(* C2: a non-dry-run Modify of A with a well-formed diff between A and B      *)
(* leaves the file with content B (checked under SpecModify).                 *)
RoundTrip ==
    (Returned /\ ~dry_run)
    => (ret.success
        /\ fs[F] = Join(Patched(SplitLines(start.fs[F]), patches[1].files[1].hunks)))

(* C3: a dry run creates, modifies and deletes nothing: the files and the     *)
(* backup area stay as they were when the call started.                       *)
DryRunPurity ==
    (calls > 0 /\ dry_run)
    => (fs = start.fs /\ backups = start.backups /\ bdirs = start.bdirs)

\* a dry run has validated an Add and a Modify or Remove, and returned
DryRunPurityWitness ==
    /\ Returned /\ dry_run
    /\ \E k \in 1..Len(ret.results) :
          ret.results[k].success /\ ret.results[k].lines_removed > 0
    /\ \E k \in 1..Len(ret.results) :
          ret.results[k].success /\ ret.results[k].lines_removed = 0

(* C4: the per-file results of a dry run equal those of the non-dry-run call  *)
(* that follows it on the same diff texts and tree (checked under SpecTwice). *)
DryRunFidelity ==
    (Returned /\ calls = 2 /\ prev.dry_run /\ ~dry_run)
    => /\ Len(ret.results) = Len(prev.ret.results)
       /\ \A k \in 1..Len(ret.results) :
             Counts(ret.results[k]) = Counts(prev.ret.results[k])

\* the diff texts of the call that parse
Parsing == {k \in 1..Len(patches) : ~ParseFails(patches[k])}

OneMalformedOthersApplicable ==
    /\ Cardinality({k \in 1..Len(patches) : ParseFails(patches[k])}) = 1
    /\ \A k \in Parsing : Len(patches[k].files) = 1
    /\ \A k, m \in Parsing :
          k # m => ResolveFilePath(patches[k].files[1].path)
                     # ResolveFilePath(patches[m].files[1].path)
    /\ \A k \in Parsing :
          LET pf == patches[k].files[1]
              before == start.fs[ResolveFilePath(pf.path)]
          IN  IF IsAddedFile(pf) THEN before = Absent
              ELSE before # Absent /\ (~IsRemovedFile(pf) => ~Mismatches(before, pf))

AppliedToTree(pf) ==
    LET path == ResolveFilePath(pf.path)
    IN  IF IsAddedFile(pf) THEN fs[path] = AddedContent(pf)
        ELSE IF IsRemovedFile(pf) THEN fs[path] = Absent
        ELSE fs[path] = Join(Patched(SplitLines(start.fs[path]), pf.hunks))

(* C5: of N diff texts one is malformed and the others are applicable diffs   *)
(* of one file each: one patch fails, the others are applied to the tree and  *)
(* their files are in files_modified.                                         *)
PartialFailureIsolation ==
    (Returned /\ ~dry_run /\ ~faulted /\ OneMalformedOthersApplicable)
    => /\ ret.patches_failed = 1
       /\ ret.patches_applied = Len(patches) - 1
       /\ \A k \in Parsing :
             /\ \E m \in 1..Len(ret.files_modified) :
                   ret.files_modified[m] = ResolveFilePath(patches[k].files[1].path)
             /\ AppliedToTree(patches[k].files[1])

\* the malformed diff text came first and the diff after it was applied
PartialFailureIsolationWitness ==
    /\ Returned /\ ~dry_run /\ ~faulted /\ OneMalformedOthersApplicable
    /\ Len(patches) > 1
    /\ ParseFails(patches[1])

\* the call applies one add-file diff, not dry
OneAdd ==
    /\ Len(patches) = 1
    /\ ~ParseFails(patches[1])
    /\ Len(patches[1].files) = 1
    /\ IsAddedFile(patches[1].files[1])
    /\ ~dry_run

AddPath == ResolveFilePath(patches[1].files[1].path)

(* C6: the same add-file diff applied twice, not dry: the first call succeeds *)
(* and creates the file, the second fails and leaves the file's content as    *)
(* the first call wrote it (checked under SpecTwice).                         *)
IdempotenceOfAdd ==
    /\ (Returned /\ calls = 1 /\ OneAdd /\ start.fs[AddPath] = Absent)
       => (ret.success /\ fs[AddPath] = AddedContent(patches[1].files[1]))
    /\ (Returned /\ calls = 2 /\ OneAdd /\ ~prev.dry_run /\ prev.fs[AddPath] = Absent)
       => /\ prev.ret.success
          /\ ~ret.success
          /\ ret.results[1].error = "Cannot add file that already exists"
          /\ fs[AddPath] = start.fs[AddPath]
          /\ fs[AddPath] = AddedContent(patches[1].files[1])

\* the add-file diff has been applied twice to a tree that lacked the file
IdempotenceOfAddWitness ==
    Returned /\ calls = 2 /\ OneAdd /\ ~prev.dry_run /\ prev.fs[AddPath] = Absent

(* C7: a Modify's write and a Remove's deletion come right after the one      *)
(* backup of that file, taken in the same file operation from the content the *)
(* file still has; an Add changes no backup.                                  *)
BackupOrdering ==
    [][/\ (fs' # fs) =>
            \/ /\ last'.kind = "Add"
               /\ backups' = backups
               /\ bdirs' = bdirs
            \/ /\ pc = "mutate"
               /\ last.kind \in {"Modify", "Remove"}
               /\ last.events = <<"backup">>
               /\ \A p \in FsPaths : p # op.path => fs'[p] = fs[p]
               /\ fs[op.path] = last.pre
               /\ backups[op.path][op.backup_path.ts] = fs[op.path]
               /\ backups' = backups
       /\ (backups' # backups) =>
            /\ pc = "backup"
            /\ last.kind \in {"Modify", "Remove"}
            /\ last.events = <<>>
            /\ fs' = fs
      ]_vars

\* a call has backed up and written one file, and backed up and deleted another
BackupOrderingWitness ==
    /\ Returned
    /\ \E k, m \in 1..Len(ret.results) :
          /\ ret.results[k].success /\ ret.results[k].backup_path # NoBackup
          /\ ret.results[k].lines_added > 0
          /\ ret.results[m].success /\ ret.results[m].backup_path # NoBackup
          /\ ret.results[m].lines_added = 0

\* _create_backup raised in the last file operation
BackupFailed ==
    \E k \in 1..Len(last.events) : last.events[k] = "backup failed"

(* C8: when the backup of a Modify or Remove cannot be made, the file's       *)
(* result is a failure and the file is neither written nor deleted.           *)
BackupFailureAborts ==
    BackupFailed
    => /\ last.events = <<"backup failed">>
       /\ fs[last.path] = last.pre
       /\ last.done
       /\ ~last.result.success
       /\ last.result.backup_path = NoBackup

\* the backup of a Remove failed after an earlier file operation of the call
BackupFailureAbortsWitness ==
    BackupFailed /\ last.done /\ last.kind = "Remove" /\ Len(results) > 1

(* C9: a Modify or Remove whose result is a failure leaves the file, present  *)
(* or not, with the content it had when the file operation started.           *)
NoPartialPersistence ==
    (last.done /\ last.kind \in {"Modify", "Remove"} /\ ~last.result.success)
    => fs[last.path] = last.pre

\* the successful results of a path, and the first of them
SuccessfulAt(path) ==
    {k \in 1..Len(ret.results) :
        ret.results[k].success /\ ret.results[k].file_path = path}

FirstAt(path) == CHOOSE k \in SuccessfulAt(path) : \A m \in SuccessfulAt(path) : k <= m

(* C10: success is true iff no result failed, and files_modified holds the    *)
(* file_path of every successful result once, in order of first occurrence.   *)
Aggregation ==
    Returned =>
      LET fm == ret.files_modified
      IN  /\ ret.success <=> \A k \in 1..Len(ret.results) : ret.results[k].success
          /\ \A k \in 1..Len(ret.results) :
                ret.results[k].success
                => \E m \in 1..Len(fm) : fm[m] = ret.results[k].file_path
          /\ \A m \in 1..Len(fm) : SuccessfulAt(fm[m]) # {}
          /\ \A m, n \in 1..Len(fm) : m < n => fm[m] # fm[n]
          /\ \A m, n \in 1..Len(fm) : m < n => FirstAt(fm[m]) < FirstAt(fm[n])

\* one path succeeded twice in a call and is listed once
AggregationWitness ==
    /\ Returned
    /\ \E k, m \in 1..Len(ret.results) :
          /\ k < m
          /\ ret.results[k].success /\ ret.results[m].success
          /\ ret.results[k].file_path = ret.results[m].file_path
    /\ Len(ret.files_modified) = 1

\* the Context and Removed lines of every hunk, in order
RECURSIVE AllOldLines(_)
AllOldLines(hunks) ==
    IF hunks = <<>> THEN <<>> ELSE OldLines(Head(hunks)) \o AllOldLines(Tail(hunks))

(* C13: a Remove of an existing file whose content is not the diff's Removed  *)
(* and Context lines fails, and the file is not deleted.                      *)
RemoveValidatesContent ==
    (last.done /\ last.kind = "Remove" /\ last.pre # Absent
       /\ SplitLines(last.pre) # AllOldLines(last.pf.hunks))
    => (~last.result.success /\ fs[last.path] = last.pre)

\* a handler is about to run on a target in the wrong state: an Add on a file
\* that exists, a Remove or Modify on a file that is missing
WrongFileState ==
    /\ pc = "file"
    /\ IF IsAddedFile(CurFile) THEN fs[CurPath] # Absent ELSE fs[CurPath] = Absent

(* C16: an Add whose target exists, and a Remove or Modify whose target is    *)
(* missing, fail with an error in one step that changes no file, creates no   *)
(* file and makes no backup.                                                  *)
FileStateErrors ==
    [][WrongFileState =>
         /\ fs' = fs
         /\ backups' = backups
         /\ bdirs' = bdirs
         /\ results' = Append(results, last'.result)
         /\ last'.done
         /\ ~last'.result.success
         /\ last'.result.error # None
      ]_vars

\* one call met all three: an Add on a file that exists, a Remove and a Modify
\* on a file that is missing
FileStateErrorsWitness ==
    /\ Returned
    /\ \A e \in {"Cannot add file that already exists",
                 "Cannot remove file that doesn't exist",
                 "Cannot modify file that doesn't exist"} :
          \E k \in 1..Len(ret.results) :
             ~ret.results[k].success /\ ret.results[k].error = e

\* the loop is at a diff text that does not parse
AtUnparseable == pc = "patch" /\ i <= Len(patches) /\ ParseFails(patches[i])

(* C17: a diff text that does not parse yields, in one step that touches no   *)
(* file, one failed result whose file_path is patch_<i> for its 1-based       *)
(* position i, and the loop goes on with the next diff text.                  *)
ParseFailureHandling ==
    [][AtUnparseable =>
         /\ fs' = fs
         /\ backups' = backups
         /\ bdirs' = bdirs
         /\ Len(results') = Len(results) + 1
         /\ SubSeq(results', 1, Len(results)) = results
         /\ ~results'[Len(results')].success
         /\ results'[Len(results')].file_path = <<"patch_" \o ToString(i)>>
         /\ results'[Len(results')].error # None
         /\ patches_failed' = patches_failed + 1
         /\ patches_applied' = patches_applied
         /\ pc' = "patch"
         /\ i' = i + 1
      ]_vars

\* an empty PatchSet came first, was reported as patch_1, and the diff text
\* after it was applied
ParseFailureHandlingWitness ==
    /\ Returned
    /\ Len(patches) = 2
    /\ patches[1] = EmptyPatchSet
    /\ Len(ret.results) = 2
    /\ ret.results[1].file_path = <<"patch_1">>
    /\ ~ret.results[1].success
    /\ ret.results[2].success
    /\ fs # start.fs

(* C18: a call with no diff text at all returns success = false and a         *)
(* top-level error.                                                           *)
EmptyInputError ==
    (Returned /\ patches = <<>>) => (~ret.success /\ ret.error # None)

\* a relative path that leaves target_dir: at some component it has gone up
\* more often than down
Escapes(p) ==
    /\ p # <<>>
    /\ p[1] # "/"
    /\ \E k \in 1..Len(p) :
          Cardinality({m \in 1..k : p[m] = ".."})
            > Cardinality({m \in 1..k : p[m] # ".."})

(* C11: a file operation on a relative diff path that escapes target_dir      *)
(* through .. fails, and no file outside target_dir is created, written,      *)
(* backed up or deleted (checked under SpecOne).                              *)
TraversalRejection ==
    (last.done /\ Escapes(last.pf.path))
    => /\ ~last.result.success
       /\ \A p \in DOMAIN fs :
             Escapes(p) => (fs[p] = start.fs[p] /\ backups[p] = start.backups[p])

(* C12: for headers --- a/P and +++ b/P with a relative P the engine operates *)
(* on target_dir/P, also when P begins with a/ or b/; an absolute name is     *)
(* used as it is (checked under SpecOne).                                     *)
PathResolution ==
    last.done =>
      /\ \A P \in {F, InDir, Outside} :
            last.pf.path = UnidiffPath(Prefixed(P)) => last.path = P
      /\ last.pf.path = UnidiffPath(Rooted) => last.path = Rooted

(* C14: after a successful Remove, not dry, the file is gone, the backup at   *)
(* the reported backup_path holds the file's bytes, and lines_removed is the  *)
(* number of lines the file had (checked under SpecOne).                      *)
RemovePostState ==
    (last.done /\ last.kind = "Remove" /\ last.result.success /\ ~dry_run)
    => /\ fs[last.path] = Absent
       /\ last.result.backup_path # NoBackup
       /\ backups[last.result.backup_path.file][last.result.backup_path.ts] = last.pre
       /\ last.result.lines_removed = Len(SplitLines(last.pre))

\* a line's text and its line break
Terminated(v) ==
    IF v # <<>> /\ v[Len(v)] = NL THEN v ELSE Append(v, NL)

(* C15: after a successful Add of N >= 1 Added lines, not dry, the file is    *)
(* those N lines in order, each ended by a line break, and lines_added = N    *)
(* (checked under SpecOne).                                                   *)
AddContent ==
    (last.done /\ last.kind = "Add" /\ last.result.success /\ ~dry_run
       /\ Len(AddedValues(last.pf.hunks)) >= 1)
    => LET vals == AddedValues(last.pf.hunks)
       IN  /\ fs[last.path] = Join([k \in 1..Len(vals) |-> Terminated(vals[k])])
           /\ Len(SplitLines(fs[last.path])) = Len(vals)
           /\ last.result.lines_added = Len(vals)

\* the in-memory buffer when hunk k is reached: the hunks after it are applied
BufferAt(lines, hunks, k) ==
    ApplyHunksToContent(lines, SubSeq(hunks, k + 1, Len(hunks)))

\* a hunk does not match the buffer after another hunk was substituted
LaterHunkFails(content, pf) ==
    \E k \in 1..(Len(pf.hunks) - 1) :
       HunkMismatch(BufferAt(SplitLines(content), pf.hunks, k), pf.hunks[k])

(* C19: a Modify writes its file at most once, with all hunks applied; when a *)
(* hunk fails after other hunks were substituted in memory, the file is not   *)
(* written and not backed up (checked under SpecOne).                         *)
PerFileAtomicity ==
    /\ (last.kind = "Modify")
       => /\ Cardinality({k \in 1..Len(last.events) : last.events[k] = "write"}) <= 1
          /\ fs[last.path] \in
               {last.pre,
                Join(ApplyHunksToContent(SplitLines(last.pre), last.pf.hunks))}
    /\ (last.done /\ last.kind = "Modify" /\ last.pre # Absent
          /\ LaterHunkFails(last.pre, last.pf))
       => /\ last.events = <<>>
          /\ fs[last.path] = last.pre
          /\ backups[last.path] = start.backups[last.path]

(* C20: with the hunks applied in descending order of target_start, the slice *)
(* each hunk replaces in the buffer is the original file's lines of the       *)
(* hunk's source range (checked under SpecModify).                            *)
OffsetStability ==
    (last.kind = "Modify" /\ last.pre # Absent)
    => LET original == SplitLines(last.pre)
           hunks == last.pf.hunks
       IN  \A k \in 1..Len(hunks) :
              SliceAt(BufferAt(original, hunks, k),
                      hunks[k].target_start - 1, OldLen(hunks[k]))
                = SliceAt(original, hunks[k].source_start - 1, OldLen(hunks[k]))

(* C21: after a successful Modify, not dry, the file has as many lines as it   *)
(* had before, plus lines_added, minus lines_removed (checked under           *)
(* SpecModify).                                                               *)
LineCountAccounting ==
    (last.done /\ last.kind = "Modify" /\ last.result.success /\ ~dry_run)
    => /\ last.result.lines_added = AddedCount(last.pf)
       /\ last.result.lines_removed = RemovedCount(last.pf)
       /\ Len(SplitLines(fs[last.path]))
            = Len(SplitLines(last.pre)) + last.result.lines_added
                - last.result.lines_removed

\* the backup a result reports, in a backup area
Reported(area, r) == area[r.backup_path.file][r.backup_path.ts]

(* C22: the backup a result reports holds the bytes its file had before the   *)
(* mutation, and no later step of this call or of a later call overwrites or  *)
(* removes it (checked under SpecTwice).                                      *)
BackupsRecoverable ==
    [][/\ (last'.done /\ last'.result.backup_path # NoBackup)
            => Reported(backups', last'.result) = last'.pre
       /\ \A k \in 1..Len(results) :
             results[k].backup_path # NoBackup
             => Reported(backups', results[k]) = Reported(backups, results[k])
       /\ \A k \in 1..Len(ret.results) :
             ret.results[k].backup_path # NoBackup
             => Reported(backups', ret.results[k]) = Reported(backups, ret.results[k])
      ]_vars

(* C23: a result carries a backup_path only if it is the successful result of *)
(* a Modify or Remove, not dry, whose backup copy was made in full before the *)
(* write or the deletion.                                                     *)
ReportedBackupsComplete ==
    /\ \A k \in 1..Len(results) :
          results[k].backup_path # NoBackup => (results[k].success /\ ~dry_run)
    /\ (last.done /\ last.result.backup_path # NoBackup)
       => /\ last.result.success
          /\ ~dry_run
          /\ last.kind \in {"Modify", "Remove"}
          /\ last.events \in {<<"backup", "write">>, <<"backup", "unlink">>}
          /\ last.result.backup_path.file = last.path
          /\ Reported(backups, last.result) = last.pre

\* in one call a backup was made and reported, and the backup of a later
\* Remove failed
ReportedBackupsCompleteWitness ==
    /\ Returned /\ faulted
    /\ Len(ret.results) > 1
    /\ ret.results[1].backup_path # NoBackup
    /\ BackupFailed /\ last.kind = "Remove"
    /\ last.result.backup_path = NoBackup

\* the results of a call that succeeded, and those that failed
Successes(rs) == {k \in 1..Len(rs) : rs[k].success}
Failures(rs) == {k \in 1..Len(rs) : ~rs[k].success}

(* C28: in the result of apply_patches, patches_applied is the number of      *)
(* successful results, patches_failed the number of failed ones, their sum    *)
(* the length of results, and files_modified is no longer than                *)
(* patches_applied.                                                           *)
CountConsistency ==
    Returned
    => /\ ret.patches_applied = Cardinality(Successes(ret.results))
       /\ ret.patches_failed = Cardinality(Failures(ret.results))
       /\ ret.patches_applied + ret.patches_failed = Len(ret.results)
       /\ Len(ret.files_modified) <= ret.patches_applied

\* a call with two successes on one path and a failure
CountConsistencyWitness ==
    /\ Returned
    /\ ret.patches_applied = 2
    /\ ret.patches_failed >= 1
    /\ Len(ret.files_modified) = 1

\* a diff text has no PatchSet: PatchSet(text) raised or is empty
Unparseable(text) == ~text.parses \/ text.files = <<>>

\* the number of results a diff text is due, and of those due before the k-th
Shape(text) == IF Unparseable(text) THEN 1 ELSE Len(text.files)
Offset(k) == SumSeq([m \in 1..(k - 1) |-> Shape(patches[m])])

\* the synthetic identifier of the k-th diff text
PatchId(k) == <<"patch_" \o ToString(k)>>
Synthetic(r) == \E m \in 1..Len(patches) : r.file_path = PatchId(m)

(* C29: each diff text contributes to results either one failed entry         *)
(* patch_<i>, when it does not parse, or one entry for each FileDiff of its   *)
(* PatchSet, in order and none of them synthetic.                             *)
OneOutcomeShape ==
    Returned
    => /\ Len(ret.results) = Offset(Len(patches) + 1)
       /\ \A k \in 1..Len(patches) :
             LET seg == SubSeq(ret.results, Offset(k) + 1, Offset(k + 1))
             IN  IF Unparseable(patches[k])
                 THEN /\ Len(seg) = 1
                      /\ ~seg[1].success
                      /\ seg[1].file_path = PatchId(k)
                 ELSE /\ Len(seg) = Len(patches[k].files)
                      /\ \A m \in 1..Len(seg) :
                            /\ ~Synthetic(seg[m])
                            /\ seg[m].file_path
                                 = ResolveFilePath(patches[k].files[m].path)

\* a diff text of two FileDiffs, then one that does not parse
OneOutcomeShapeWitness ==
    /\ Returned
    /\ Len(patches) = 2
    /\ ~Unparseable(patches[1]) /\ Len(patches[1].files) = 2
    /\ Unparseable(patches[2])
    /\ Len(ret.results) = 3
    /\ ret.results[3].file_path = PatchId(2)

(* C25: results grows at its end, by the result of the FileDiff (or diff      *)
(* text) the loops are at, in the order of the diff texts and of the          *)
(* FileDiffs within each; a file is changed only by the FileDiff the loops    *)
(* are at, whose result is the next one.                                      *)
ReportingOrder ==
    [][pc # "idle" =>
         /\ Len(results) = Offset(i) + (j - 1)
         /\ (results' # results) =>
               /\ Len(results') = Len(results) + 1
               /\ SubSeq(results', 1, Len(results)) = results
               /\ results'[Len(results')].file_path
                    = IF pc = "patch" THEN PatchId(i)
                      ELSE ResolveFilePath(patches[i].files[j].path)
         /\ \A p \in DOMAIN fs :
               fs'[p] # fs[p]
               => /\ pc \in {"file", "mutate"}
                  /\ p = ResolveFilePath(patches[i].files[j].path)
      ]_vars

\* a call reported three results and changed both files
ReportingOrderWitness ==
    /\ Returned
    /\ Len(ret.results) >= 3
    /\ fs[F] # start.fs[F]
    /\ fs[G] # start.fs[G]
    /\ ret.results[1].file_path # ret.results[2].file_path

\* the results of a call of one diff text, numbered as the k-th of a batch
Renumbered(rs, k) ==
    [m \in 1..Len(rs) |->
        IF rs[m].file_path = PatchId(1) THEN [rs[m] EXCEPT !.file_path = PatchId(k)]
        ELSE rs[m]]

\* apply_patches([d]) called for each diff text d in turn, from the k-th on
RECURSIVE SequentialCalls(_, _, _, _)
SequentialCalls(tree, texts, k, now) ==
    IF k > Len(texts) THEN [fs |-> tree, results |-> <<>>]
    ELSE LET one == ApplyPatches(tree, <<texts[k]>>, 1, FALSE, now)
             rest == SequentialCalls(one.fs, texts, k + 1, now)
         IN  [fs |-> rest.fs, results |-> Renumbered(one.results, k) \o rest.results]

(* C30: a call of [d1,...,dn], not dry, leaves the files that the calls of    *)
(* [d1], ..., [dn] in turn leave, and its results are theirs, concatenated,   *)
(* with the synthetic identifiers numbered by position (checked under         *)
(* SpecTwice).                                                                *)
BatchIsSequential ==
    (Returned /\ ~dry_run)
    => \E now \in Seconds :
          LET seq == SequentialCalls(start.fs, patches, 1, now)
          IN  fs = seq.fs /\ ret.results = seq.results

\* the second diff text removed the file the first had added
BatchIsSequentialWitness ==
    /\ Returned /\ ~dry_run
    /\ Len(patches) = 2
    /\ start.fs[F] = Absent
    /\ Len(ret.results) = 2
    /\ ret.results[1].success /\ ret.results[1].lines_added > 0
    /\ ret.results[2].success /\ ret.results[2].backup_path # NoBackup
    /\ ret.results[1].file_path = ret.results[2].file_path

\* the diff texts without the m-th FileDiff of the k-th
Without(texts, k, m) ==
    [texts EXCEPT ![k] =
        DiffText(SubSeq(texts[k].files, 1, m - 1)
                   \o SubSeq(texts[k].files, m + 1, Len(texts[k].files)))]

\* the results that are not about a path or a diff text
RECURSIVE Others(_, _)
Others(rs, excluded) ==
    IF rs = <<>> THEN <<>>
    ELSE (IF Head(rs).file_path \in excluded THEN <<>> ELSE <<Head(rs)>>)
         \o Others(Tail(rs), excluded)

\* the FileDiffs of the call: diff text k, position m
FileDiffSlots ==
    UNION {{<<k, m>> : m \in 1..Len(patches[k].files)} :
             k \in {n \in 1..Len(patches) : ~Unparseable(patches[n])}}

\* the call without the FileDiff s leaves the other paths as this call left
\* them, and gives the other FileDiffs and diff texts the results they got
AsIfAbsent(s) ==
    LET path == ResolveFilePath(patches[s[1]].files[s[2]].path)
    IN  \E now \in Seconds :
           LET without == ApplyPatches(start.fs, Without(patches, s[1], s[2]),
                                       1, dry_run, now)
           IN  /\ \A p \in DOMAIN fs : p # path => fs[p] = without.fs[p]
               /\ Others(ret.results, {path, PatchId(s[1])})
                    = Others(without.results, {path, PatchId(s[1])})

\* a step returns a failed result for a FileDiff
FileDiffFails ==
    pc \in {"file", "backup", "mutate"} /\ last'.done /\ ~last'.result.success

(* C24: a FileDiff that fails, whatever the error, changes no file and no     *)
(* backup of another path and the loops go on with the next FileDiff; when no *)
(* I/O operation fails, the other paths and the other results of the call are *)
(* those of the call without the failing FileDiff.                            *)
CrossFileIsolation ==
    /\ [][FileDiffFails =>
            /\ \A p \in DOMAIN fs :
                  p # last'.path => (fs'[p] = fs[p] /\ backups'[p] = backups[p])
            /\ results' = Append(results, last'.result)
            /\ patches_applied' = patches_applied
            /\ files_modified' = files_modified
            /\ IF j < Len(patches[i].files)
               THEN pc' = "file" /\ i' = i /\ j' = j + 1
               ELSE pc' = "patch" /\ i' = i + 1
         ]_vars
    /\ [](Returned /\ ~faulted
            => \A s \in FileDiffSlots :
                  ~ret.results[Offset(s[1]) + s[2]].success => AsIfAbsent(s))

\* the first FileDiff of a diff text failed and the second, on another path,
\* was applied; so was the diff text after it
CrossFileIsolationWitness ==
    /\ Returned /\ ~dry_run /\ ~faulted
    /\ Len(patches) = 2
    /\ Len(ret.results) = 3
    /\ ~ret.results[1].success
    /\ ret.results[2].success
    /\ ret.results[3].success
    /\ ret.results[1].file_path # ret.results[2].file_path

(* C26: validate_patch creates, modifies and deletes no file, no backup and   *)
(* no backup directory, whatever the diff text and the tree (checked under    *)
(* SpecValidate).                                                             *)
ValidateIsPure ==
    [][(validation' # validation)
         => (fs' = fs /\ backups' = backups /\ bdirs' = bdirs)]_vars

\* a diff text that adds a file was validated and found applicable
ValidateIsPureWitness ==
    /\ validation.called
    /\ validation.report.valid
    /\ \E k \in 1..Len(validation.report.files) :
          validation.report.files[k].operation = "add"

\* validate_patch and the dry run of the same diff text on the same tree agree
Agree ==
    /\ validation.report.valid <=> ret.success
    /\ ~ParseFails(validation.text)
       => /\ Len(validation.report.files) = Len(ret.results)
          /\ \A k \in 1..Len(ret.results) :
                validation.report.files[k].can_apply <=> ret.results[k].success

====
